---- MODULE Spec2Model ----
(***************************************************************************)
(* conveyorbelt: a development supervisor that watches a project tree,     *)
(* serialises build invocations, serves the build output over HTTP and     *)
(* launches a browser.                                                     *)
(*                                                                         *)
(* The module models these pieces of the repository, each with its own     *)
(* specification over the shared variable tuple:                           *)
(*   SpecHandler       the watch-engine action handler of                  *)
(*                     src/src/event_handler.rs, fed by the event filter   *)
(*                     of src/src/event_filterer.rs, inside the main that  *)
(*                     obtains the Config and runs the watch engine;       *)
(*   SpecBuildCommand  BuildCommand of src/src/build_command.rs, one       *)
(*                     thread per invoke_or_queue call;                    *)
(*   SpecMain          the startup and shutdown sequence of                *)
(*                     src/src/main.rs;                                    *)
(*   SpecFilter        the event filter applied to one event;              *)
(*   SpecRun           one build run, BuildCommand::invoke_and_wait with   *)
(*                     the child handle and the readers of src/common.rs;  *)
(*   SpecBrowser       the startup of main with Browser::init of           *)
(*                     src/src/browser.rs.                                 *)
(***************************************************************************)
EXTENDS Integers, Sequences, FiniteSets, TLC

(***************************************************************************)
(* Bounds of the model.                                                    *)
(***************************************************************************)
\* longest event channel content
MaxQueue == 2
\* number of raw filesystem events the environment produces
MaxFileEvents == 3
\* the counter of started builds saturates here
MaxBuilds == 3
\* number of signals the environment delivers to the watch engine
MaxWxSignals == 1
\* number of threads BuildCommand::invoke_or_queue may spawn in one run
MaxThreads == 4
\* number of signals the environment delivers to the process
MaxSignals == 2
\* number of lines a build writes to each of its output streams
MaxLines == 1

VARIABLES
    \* ---- event handler (src/src/event_handler.rs) ----
    events,           \* the watch engine's event channel, oldest first
    jobs,             \* number of jobs action.list_jobs() reports
    is_build_queued,  \* the handler's Arc<Mutex<bool>>
    quitting,         \* action.quit_gracefully was called
    wxRunning,        \* wx.main() has not returned
    initialSent,      \* wx.send_event(initial_event()) happened
    fileEventsSent,   \* raw filesystem events produced so far
    wxSignalsSent,    \* signals delivered to the watch engine so far
    buildsStarted,    \* jobs created so far (saturating at MaxBuilds)
    stray,            \* an accepted file event arrived outside the first build
    overlapped,       \* a build was started while another one was running
    wpc,              \* the statement of the watching main that runs next
    serveDir,         \* the serve directory (Config.serve_dir) exists
    wexit,            \* how the watching process ended, "running" before that
    lastRaw,          \* the raw filesystem event the watcher produced last
    unhooked,         \* a job was created without the spawn hook
    continuedHandled, \* the handler has handled a Continued completion
    unreachableHit,   \* the handler ran into its unreachable!() of line 92
    \* ---- BuildCommand (src/src/build_command.rs) ----
    sync_state,       \* the value inside Arc<Mutex<SyncState>>
    poisoned,         \* a thread panicked while holding the mutex
    pc,               \* where each invoke_or_queue thread stands
    bcSpawned,        \* threads spawned so far
    bcLive,           \* build subprocesses alive
    bcAttempts,       \* spawn attempts of the build command so far
    bcSpawnFailed,    \* some spawn attempt failed
    bcLastExit,       \* exit status of the build that ended last
    bcPendingUpdate,  \* a request arrived during a build; no build started since
    \* ---- main (src/src/main.rs) ----
    mpc,              \* the statement of main that runs next
    env,              \* the environment variables that are set
    sigHandlers,      \* create_signals has registered the signal handlers
    sigStream,        \* signals waiting in the signals stream
    mSignalsSent,     \* signals delivered to the process so far
    initialBuild,     \* the build subprocess main spawns
    server,           \* the listener and the HTTP server built on it
    browserDataDir,   \* the browser data directory exists
    browser,          \* the browser subprocess
    browserOwned,     \* main holds the Browser value (it kills on drop)
    stdout,           \* the lines written to standard output
    exit,             \* how the process ended, "running" before that
    startupError,     \* the error that made main panic, "none" otherwise
    sigBeforeHandshake, \* a shutdown signal was delivered before the handshake step
    sigAfterHandshake,  \* a shutdown signal was delivered after the handshake line
    request,            \* a client's HTTP request to the port of the handshake line
    \* ---- the event filter on its own (src/src/event_filterer.rs) ----
    checkedEvent,     \* the event check_event was called with last
    checkedVerdict,   \* what check_event answered for it
    fileWatchingVerdict, \* what the filter of src/src/file_watching.rs answered
    \* ---- one build run (BuildCommand::invoke_and_wait, src/common.rs) ----
    ipc,              \* the statement of invoke_and_wait that runs next
    child,            \* the build subprocess: none, running, exited (a zombie), reaped
    childAtDrop,      \* what the child was when the drop of its handle began
    termSent,         \* the drop has sent SIGTERM to the child
    pipe,             \* per stream, what the child wrote and nobody read yet
    written,          \* per stream, how many lines the child wrote so far
    reader,           \* per stream, the reader thread: unstarted, running, exited
    readerSaw,        \* per stream, what the reader's last next() returned
    exitObserved      \* build_process.wait() of line 63 returned the exit status

handlerVars == <<events, jobs, is_build_queued, quitting, wxRunning, initialSent,
                 fileEventsSent, wxSignalsSent, buildsStarted, stray,
                 overlapped, wpc, serveDir, wexit, lastRaw, unhooked,
                 continuedHandled, unreachableHit>>

bcVars == <<sync_state, poisoned, pc, bcSpawned, bcLive, bcAttempts, bcSpawnFailed,
            bcLastExit, bcPendingUpdate>>

mainVars == <<mpc, env, sigHandlers, sigStream, mSignalsSent, initialBuild, server,
              browserDataDir, browser, browserOwned, stdout, exit, startupError,
              sigBeforeHandshake, sigAfterHandshake, request>>

filterVars == <<checkedEvent, checkedVerdict, fileWatchingVerdict>>

runVars == <<ipc, child, childAtDrop, termSent, pipe, written, reader, readerSaw,
             exitObserved>>

vars == <<handlerVars, bcVars, mainVars, filterVars, runVars>>

(***************************************************************************)
(* Events.  An event carries a metadata marker, an optional path, an       *)
(* optional file-event kind, an optional process completion and an         *)
(* optional signal.                                                        *)
(***************************************************************************)
Markers == {"none", "initialize", "initial-build"}

\* where the path of an event lies
PathClasses == {"none", "dotgit", "ignored", "tracked"}

FileEventKinds == {"none", "Create", "Modify", "Remove", "Other"}

\* Tag::ProcessCompletion(Option<ProcessEnd>); "NoTag" is an event without the tag
ProcessEnds == {"None", "Success", "ExitError", "ExitSignal", "ExitStop",
                "Exception", "Continued"}

ShutdownSignals == {"SIGINT", "SIGTERM", "SIGQUIT"}

Event(marker, path, kind, end, signal) ==
    [marker |-> marker, path |-> path, kind |-> kind, end |-> end, signal |-> signal]

initial_event == Event("initialize", "none", "none", "NoTag", "none")

PathEvent(path, kind) == Event("none", path, kind, "NoTag", "none")

CompletionEvent(end) == Event("none", "none", "none", end, "none")

SignalEvent(sig) == Event("none", "none", "none", "NoTag", sig)

(***************************************************************************)
(* The event filter.                                                       *)
(***************************************************************************)
InitialBuildFilterer_check_event(event) == event.marker = "initial-build"

\* a dot-git filter that lets every event pass
DotGitFilterer_accept_all(event) == TRUE

DotGitFilterer_check_event(event) ==
    IF event.path = "none" THEN TRUE ELSE event.path # "dotgit"

\* the ignore filterer of the watch engine: passes what no ignore rule matches
IgnoreFilterer_check_event(event) == event.path # "ignored"

ChangeFilterer_check_event(event) ==
    ~(event.kind \in {"Create", "Modify", "Remove"})

EventFilterer_check_event(event) ==
    \/ InitialBuildFilterer_check_event(event)
    \/ /\ DotGitFilterer_check_event(event)
       /\ IgnoreFilterer_check_event(event)
       /\ ChangeFilterer_check_event(event)

\* the filter of src/src/file_watching.rs: .git first, then the kind, then the
\* ignore rules
EventFilter_check_event(event) ==
    IF event.path = "dotgit"
    THEN FALSE
    ELSE IF ~(event.kind \in {"Create", "Modify", "Remove"})
    THEN FALSE
    ELSE IgnoreFilterer_check_event(event)

\* nothing was checked yet
InitFilter ==
    /\ checkedEvent = Event("none", "none", "none", "NoTag", "none")
    /\ checkedVerdict = "unchecked"
    /\ fileWatchingVerdict = "unchecked"

\* Filterer::check_event is called with an event: any marker, with or without a
\* path, a file-event kind and a process completion
CheckEvent ==
    /\ \E marker \in Markers, path \in PathClasses, kind \in FileEventKinds,
          end \in ProcessEnds \cup {"NoTag"} :
        LET event == Event(marker, path, kind, end, "none") IN
          /\ checkedEvent' = event
          /\ checkedVerdict' =
                 IF EventFilterer_check_event(event) THEN "accept" ELSE "reject"
          /\ fileWatchingVerdict' =
                 IF EventFilter_check_event(event) THEN "accept" ELSE "reject"
    /\ UNCHANGED <<handlerVars, bcVars, mainVars, runVars>>

NextFilter == CheckEvent

(***************************************************************************)
(* The action handler.                                                     *)
(***************************************************************************)
\* a handler that takes a resumed process for an ended one
TerminalEnds_with_Continued ==
    {"None", "Success", "ExitError", "ExitSignal", "Exception", "Continued"}

TerminalEnds == {"None", "Success", "ExitError", "ExitSignal", "Exception"}

Saturate(n) == IF n < MaxBuilds THEN n + 1 ELSE n

\* the value of lastRaw before the watcher has produced an event
NoRawEvent == Event("none", "none", "none", "NoTag", "none")

\* action.create_job(build_command): one more job, its build subprocess started
create_job ==
    /\ jobs' = jobs + 1
    /\ buildsStarted' = Saturate(buildsStarted)
    /\ overlapped' = (overlapped \/ jobs > 0)

\* job.set_spawn_hook(.. command.wrap(CommandWrapper { serve_path }) ..): the job's
\* subprocess gets SERVE_PATH and its output is piped into the log
set_spawn_hook == UNCHANGED unhooked

\* a job whose spawn hook was never set: spawned with the command as it is
no_spawn_hook == unhooked' = TRUE

InitHandler ==
    /\ events = <<>>
    /\ jobs = 0
    /\ is_build_queued = FALSE
    /\ quitting = FALSE
    /\ wxRunning = TRUE
    /\ initialSent = FALSE
    /\ fileEventsSent = 0
    /\ wxSignalsSent = 0
    /\ buildsStarted = 0
    /\ stray = FALSE
    /\ overlapped = FALSE
    /\ wpc = "config"
    /\ serveDir = FALSE
    /\ wexit = "running"
    /\ lastRaw = NoRawEvent
    /\ unhooked = FALSE
    /\ continuedHandled = FALSE
    /\ unreachableHit = FALSE

\* Config::obtain()?: the project root is resolved, then the serve directory is
\* created as a TempDir that the Config owns
ConfigObtain ==
    /\ wpc = "config"
    /\ \E r \in {"ok", "project_root_error", "serve_dir_error"} :
        IF r = "ok"
        THEN /\ wpc' = "filterer"
             /\ serveDir' = TRUE
             /\ UNCHANGED <<wexit, wxRunning>>
        ELSE /\ wpc' = "exited"
             /\ wexit' = "exit1"
             /\ wxRunning' = FALSE
             /\ UNCHANGED serveDir
    /\ UNCHANGED <<events, jobs, is_build_queued, quitting, initialSent,
                   fileEventsSent, wxSignalsSent, buildsStarted, stray, overlapped,
                   lastRaw, unhooked,
                   continuedHandled, unreachableHit>>
    /\ UNCHANGED <<bcVars, mainVars, filterVars, runVars>>

\* EventFilterer::new(project_root).await?: an error returns from main, which
\* drops the Config and with it the serve directory
CreateFilterer ==
    /\ wpc = "filterer"
    /\ \E r \in {"ok", "ignore_filter_error"} :
        IF r = "ok"
        THEN /\ wpc' = "send_initial"
             /\ UNCHANGED <<wexit, wxRunning, serveDir>>
        ELSE /\ wpc' = "exited"
             /\ wexit' = "exit1"
             /\ wxRunning' = FALSE
             /\ serveDir' = FALSE
    /\ UNCHANGED <<events, jobs, is_build_queued, quitting, initialSent,
                   fileEventsSent, wxSignalsSent, buildsStarted, stray, overlapped,
                   lastRaw, unhooked,
                   continuedHandled, unreachableHit>>
    /\ UNCHANGED <<bcVars, mainVars, filterVars, runVars>>

\* wx.send_event(initial_event(), Priority::Normal), then wx.main() starts
SendInitialEvent ==
    /\ wpc = "send_initial"
    /\ wxRunning /\ ~initialSent
    /\ Len(events) < MaxQueue
    /\ initialSent' = TRUE
    /\ wpc' = "wx_main"
    /\ events' = IF EventFilterer_check_event(initial_event)
                 THEN Append(events, initial_event) ELSE events
    /\ UNCHANGED <<jobs, is_build_queued, quitting, wxRunning, fileEventsSent,
                   wxSignalsSent, buildsStarted, stray, overlapped, serveDir, wexit,
                   lastRaw, unhooked,
                   continuedHandled, unreachableHit>>
    /\ UNCHANGED <<bcVars, mainVars, filterVars, runVars>>

\* the first build is the only one started so far and it is running
FirstBuildRunning == buildsStarted = 1 /\ jobs = 1

\* no build was requested yet: the event that arrives now triggers the first one
IsTrigger ==
    /\ buildsStarted = 0
    /\ \A i \in 1..Len(events) : events[i].path = "none"

\* the filesystem watcher produces a raw event; the filter lets it through or not
FileEvent ==
    /\ wpc = "wx_main"
    /\ wxRunning
    /\ fileEventsSent < MaxFileEvents
    /\ Len(events) < MaxQueue
    /\ \E path \in PathClasses \ {"none"}, kind \in FileEventKinds :
        LET ev == PathEvent(path, kind)
            accepted == EventFilterer_check_event(ev)
        IN /\ events' = IF accepted THEN Append(events, ev) ELSE events
           /\ stray' = (stray \/ (accepted /\ ~FirstBuildRunning /\ ~IsTrigger))
           /\ lastRaw' = ev
    /\ fileEventsSent' = fileEventsSent + 1
    /\ UNCHANGED <<jobs, is_build_queued, quitting, wxRunning, initialSent,
                   wxSignalsSent, buildsStarted, overlapped, wpc, serveDir, wexit,
                   unhooked,
                   continuedHandled, unreachableHit>>
    /\ UNCHANGED <<bcVars, mainVars, filterVars, runVars>>

\* a shutdown signal is delivered to the process: once wx.main() runs, the watch
\* engine turns it into an event; before that nothing handles it and the process
\* is killed at once, without running a destructor
WxSignal ==
    /\ wexit = "running"
    /\ wxRunning
    /\ wxSignalsSent < MaxWxSignals
    /\ Len(events) < MaxQueue
    /\ wxSignalsSent' = wxSignalsSent + 1
    /\ \E sig \in ShutdownSignals :
        IF wpc = "wx_main"
        THEN /\ events' = Append(events, SignalEvent(sig))
             /\ UNCHANGED <<wpc, wexit, wxRunning>>
        ELSE /\ wpc' = "exited"
             /\ wexit' = "signalled"
             /\ wxRunning' = FALSE
             /\ UNCHANGED events
    /\ UNCHANGED <<jobs, is_build_queued, quitting, initialSent, fileEventsSent,
                   buildsStarted, stray, overlapped, serveDir, lastRaw, unhooked,
                   continuedHandled, unreachableHit>>
    /\ UNCHANGED <<bcVars, mainVars, filterVars, runVars>>

\* a build subprocess ends: its job is gone and the completion is reported
JobEnds ==
    /\ wpc = "wx_main"
    /\ wxRunning
    /\ jobs > 0
    /\ Len(events) < MaxQueue
    /\ \E end \in TerminalEnds : events' = Append(events, CompletionEvent(end))
    /\ jobs' = jobs - 1
    /\ UNCHANGED <<is_build_queued, quitting, wxRunning, initialSent, fileEventsSent,
                   wxSignalsSent, buildsStarted, stray, overlapped, wpc, serveDir,
                   wexit, lastRaw, unhooked,
                   continuedHandled, unreachableHit>>
    /\ UNCHANGED <<bcVars, mainVars, filterVars, runVars>>

\* a build subprocess is stopped or resumed: it stays alive
JobStopsOrContinues ==
    /\ wpc = "wx_main"
    /\ wxRunning /\ ~quitting
    /\ jobs > 0
    /\ Len(events) < MaxQueue
    /\ \E end \in {"ExitStop", "Continued"} :
        events' = Append(events, CompletionEvent(end))
    /\ UNCHANGED <<jobs, is_build_queued, quitting, wxRunning, initialSent,
                   fileEventsSent, wxSignalsSent, buildsStarted, stray,
                   overlapped, wpc, serveDir, wexit, lastRaw, unhooked,
                   continuedHandled, unreachableHit>>
    /\ UNCHANGED <<bcVars, mainVars, filterVars, runVars>>

\* a handler that does not request the quit
quit_ignored == quitting' = quitting

\* action.quit_gracefully(signal, Duration::MAX)
quit_gracefully == quitting' = TRUE

\* a handler that flips the flag instead of setting it
queue_build_toggle == is_build_queued' = ~is_build_queued

\* *is_build_queued.lock().unwrap() = true
queue_build == is_build_queued' = TRUE

\* a transport with a throttle window: what has arrived within the window goes
\* to the handler in one invocation
throttle_window == 1..MaxQueue

\* wx.config.throttle(Duration::ZERO): the sizes of the batch of one invocation;
\* the window is over with the event that opens it
throttle == {1}

\* one invocation of the closure returned by event_handler::new
HandleEvent ==
    /\ wpc = "wx_main"
    /\ wxRunning /\ ~quitting
    /\ events # <<>>
    /\ \E n \in throttle :
        /\ n <= Len(events)
        /\ LET event == Head(events) IN
            /\ events' = SubSeq(events, n + 1, Len(events))
            /\ continuedHandled' =
                   (continuedHandled
                      \/ (n = 1 /\ event.signal = "none"
                            /\ event.marker # "initial-build"
                            /\ event.path = "none" /\ event.end = "Continued"))
            /\ IF \E i \in 1..n : events[i].signal # "none"
               THEN /\ quit_gracefully
                    /\ UNCHANGED <<jobs, is_build_queued, buildsStarted, overlapped,
                                   unhooked, unreachableHit>>
               ELSE IF n # 1
               THEN /\ unreachableHit' = TRUE
                    /\ UNCHANGED <<jobs, is_build_queued, quitting, buildsStarted,
                                   overlapped, unhooked>>
               ELSE IF event.marker = "initial-build" \/ event.path # "none"
               THEN IF jobs > 0
                    THEN /\ queue_build
                         /\ UNCHANGED <<jobs, quitting, buildsStarted, overlapped,
                                        unhooked, unreachableHit>>
                    ELSE /\ create_job
                         /\ set_spawn_hook
                         /\ UNCHANGED <<is_build_queued, quitting, unreachableHit>>
               ELSE IF event.end \in TerminalEnds
               THEN IF is_build_queued
                    THEN /\ create_job
                         /\ no_spawn_hook
                         /\ UNCHANGED <<is_build_queued, quitting, unreachableHit>>
                    ELSE /\ UNCHANGED <<jobs, is_build_queued, quitting,
                                        buildsStarted, overlapped, unhooked,
                                        unreachableHit>>
               ELSE /\ UNCHANGED <<jobs, is_build_queued, quitting, buildsStarted,
                                   overlapped, unhooked, unreachableHit>>
    /\ UNCHANGED <<wxRunning, initialSent, fileEventsSent, wxSignalsSent, stray, wpc,
                   serveDir, wexit, lastRaw>>
    /\ UNCHANGED <<bcVars, mainVars, filterVars, runVars>>

\* a watch engine that returns from wx.main() without waiting for the jobs
WxQuit_without_waiting ==
    /\ wpc = "wx_main"
    /\ wxRunning /\ quitting
    /\ wxRunning' = FALSE
    /\ wpc' = "exited"
    /\ wexit' = "exit0"
    /\ serveDir' = FALSE
    /\ UNCHANGED <<events, jobs, is_build_queued, quitting, initialSent,
                   fileEventsSent, wxSignalsSent, buildsStarted, stray,
                   overlapped, lastRaw, unhooked,
                   continuedHandled, unreachableHit>>
    /\ UNCHANGED <<bcVars, mainVars, filterVars, runVars>>

\* after quit_gracefully the watch engine waits for the jobs and wx.main() returns;
\* main returns Ok(()) and the Config is dropped, the serve directory with it
WxQuit ==
    /\ wpc = "wx_main"
    /\ wxRunning /\ quitting
    /\ jobs = 0
    /\ wxRunning' = FALSE
    /\ wpc' = "exited"
    /\ wexit' = "exit0"
    /\ serveDir' = FALSE
    /\ UNCHANGED <<events, jobs, is_build_queued, quitting, initialSent,
                   fileEventsSent, wxSignalsSent, buildsStarted, stray,
                   overlapped, lastRaw, unhooked,
                   continuedHandled, unreachableHit>>
    /\ UNCHANGED <<bcVars, mainVars, filterVars, runVars>>

NextHandler ==
    \/ ConfigObtain
    \/ CreateFilterer
    \/ SendInitialEvent
    \/ FileEvent
    \/ WxSignal
    \/ JobEnds
    \/ JobStopsOrContinues
    \/ HandleEvent
    \/ WxQuit

(***************************************************************************)
(* BuildCommand.  Every invoke_or_queue call spawns a thread.  A thread     *)
(* holds the mutex only for the match and the assignment that follows it,  *)
(* so each locked region is one step.                                      *)
(***************************************************************************)
Threads == 1..MaxThreads

InitBuildCommand ==
    /\ sync_state = "NotRunning"
    /\ poisoned = FALSE
    /\ pc = [t \in Threads |-> "unspawned"]
    /\ bcSpawned = 0
    /\ bcLive = 0
    /\ bcAttempts = 0
    /\ bcSpawnFailed = FALSE
    /\ bcLastExit = "none"
    /\ bcPendingUpdate = FALSE

\* a thread is running the build or is about to, or has not yet released it
InFlight(t) == pc[t] \in {"spawn", "wait", "relock"}

NoBuildInFlight == \A t \in Threads : ~InFlight(t)

\* std::thread::spawn of invoke_or_queue: the next thread starts at its lock
spawn_thread(p) == [p EXCEPT ![bcSpawned + 1] = "lock"]

\* a caller invokes invoke_or_queue (one slot stays free for the call of line 97)
Request ==
    /\ bcSpawned < MaxThreads - 1
    /\ pc' = spawn_thread(pc)
    /\ bcSpawned' = bcSpawned + 1
    /\ UNCHANGED <<sync_state, poisoned, bcLive, bcAttempts, bcSpawnFailed,
                   bcLastExit, bcPendingUpdate>>
    /\ UNCHANGED <<handlerVars, mainVars, filterVars, runVars>>

\* a thread that starts the build without marking the state as Running
LockAndMatch_unmarked(t) ==
    /\ pc[t] = "lock"
    /\ IF poisoned
       THEN /\ pc' = [pc EXCEPT ![t] = "panicked"]
            /\ UNCHANGED <<sync_state, bcPendingUpdate>>
       ELSE CASE sync_state = "NotRunning" ->
                    /\ sync_state' = sync_state
                    /\ pc' = [pc EXCEPT ![t] = "spawn"]
                    /\ UNCHANGED bcPendingUpdate
              [] sync_state = "Running" ->
                    /\ sync_state' = "RunningAndQueued"
                    /\ pc' = [pc EXCEPT ![t] = "done"]
                    /\ bcPendingUpdate' = (bcPendingUpdate \/ bcLive > 0)
              [] sync_state = "RunningAndQueued" ->
                    /\ pc' = [pc EXCEPT ![t] = "done"]
                    /\ bcPendingUpdate' = (bcPendingUpdate \/ bcLive > 0)
                    /\ UNCHANGED sync_state
    /\ UNCHANGED <<poisoned, bcSpawned, bcLive, bcAttempts, bcSpawnFailed, bcLastExit>>
    /\ UNCHANGED <<handlerVars, mainVars, filterVars, runVars>>

\* lines 80-85 and 101-107: lock, match, assign, unlock
LockAndMatch(t) ==
    /\ pc[t] = "lock"
    /\ IF poisoned
       THEN /\ pc' = [pc EXCEPT ![t] = "panicked"]
            /\ UNCHANGED <<sync_state, bcPendingUpdate>>
       ELSE CASE sync_state = "NotRunning" ->
                    /\ sync_state' = "Running"
                    /\ pc' = [pc EXCEPT ![t] = "spawn"]
                    /\ UNCHANGED bcPendingUpdate
              [] sync_state = "Running" ->
                    /\ sync_state' = "RunningAndQueued"
                    /\ pc' = [pc EXCEPT ![t] = "done"]
                    /\ bcPendingUpdate' = (bcPendingUpdate \/ bcLive > 0)
              [] sync_state = "RunningAndQueued" ->
                    /\ pc' = [pc EXCEPT ![t] = "done"]
                    /\ bcPendingUpdate' = (bcPendingUpdate \/ bcLive > 0)
                    /\ UNCHANGED sync_state
    /\ UNCHANGED <<poisoned, bcSpawned, bcLive, bcAttempts, bcSpawnFailed, bcLastExit>>
    /\ UNCHANGED <<handlerVars, mainVars, filterVars, runVars>>

\* invoke_and_wait, lines 36-47: the spawn; its error is unwrapped at line 86
SpawnBuild(t) ==
    /\ pc[t] = "spawn"
    /\ bcAttempts' = bcAttempts + 1
    /\ \E ok \in BOOLEAN :
        IF ok
        THEN /\ pc' = [pc EXCEPT ![t] = "wait"]
             /\ bcLive' = bcLive + 1
             /\ bcPendingUpdate' = FALSE
             /\ UNCHANGED bcSpawnFailed
        ELSE /\ pc' = [pc EXCEPT ![t] = "panicked"]
             /\ bcSpawnFailed' = TRUE
             /\ UNCHANGED <<bcLive, bcPendingUpdate>>
    /\ UNCHANGED <<sync_state, poisoned, bcSpawned, bcLastExit>>
    /\ UNCHANGED <<handlerVars, mainVars, filterVars, runVars>>

\* invoke_and_wait, lines 63-73: the build ends, with success or not; both are Ok(())
WaitBuild(t) ==
    /\ pc[t] = "wait"
    /\ \E status \in {"success", "failure"} : bcLastExit' = status
    /\ bcLive' = bcLive - 1
    /\ pc' = [pc EXCEPT ![t] = "relock"]
    /\ UNCHANGED <<sync_state, poisoned, bcSpawned, bcAttempts, bcSpawnFailed,
                   bcPendingUpdate>>
    /\ UNCHANGED <<handlerVars, mainVars, filterVars, runVars>>

\* lines 87-99: lock again, match, then reset the state or call invoke_or_queue
Relock(t) ==
    /\ pc[t] = "relock"
    /\ IF poisoned
       THEN /\ pc' = [pc EXCEPT ![t] = "panicked"]
            /\ UNCHANGED <<sync_state, poisoned, bcSpawned>>
       ELSE CASE sync_state = "NotRunning" ->
                    /\ poisoned' = TRUE
                    /\ pc' = [pc EXCEPT ![t] = "panicked"]
                    /\ UNCHANGED <<sync_state, bcSpawned>>
              [] sync_state = "Running" ->
                    /\ sync_state' = "NotRunning"
                    /\ pc' = [pc EXCEPT ![t] = "done"]
                    /\ UNCHANGED <<poisoned, bcSpawned>>
              [] sync_state = "RunningAndQueued" ->
                    /\ bcSpawned < MaxThreads
                    /\ pc' = [spawn_thread(pc) EXCEPT ![t] = "done"]
                    /\ bcSpawned' = bcSpawned + 1
                    /\ UNCHANGED <<sync_state, poisoned>>
    /\ UNCHANGED <<bcLive, bcAttempts, bcSpawnFailed, bcLastExit, bcPendingUpdate>>
    /\ UNCHANGED <<handlerVars, mainVars, filterVars, runVars>>

NextBuildCommand ==
    \/ Request
    \/ \E t \in Threads : LockAndMatch(t)
    \/ \E t \in Threads : SpawnBuild(t)
    \/ \E t \in Threads : WaitBuild(t)
    \/ \E t \in Threads : Relock(t)

(***************************************************************************)
(* One build run: BuildCommand::invoke_and_wait with the child handle and  *)
(* the output readers of src/common.rs.  The build subprocess and the two  *)
(* reader threads run beside the thread that waits for the exit.            *)
(***************************************************************************)
Streams == {"stdout", "stderr"}

\* what next() of the lines iterator gives: a line, or an error for that line
Items == {"line", "error"}

InitRun ==
    /\ ipc = "spawn"
    /\ child = "none"
    /\ childAtDrop = "none"
    /\ termSent = FALSE
    /\ pipe = [s \in Streams |-> <<>>]
    /\ written = [s \in Streams |-> 0]
    /\ reader = [s \in Streams |-> "unstarted"]
    /\ readerSaw = [s \in Streams |-> "nothing"]
    /\ exitObserved = FALSE

\* lines 36-49: the command is spawned with both outputs piped and the child is
\* put into a DroppyChild; a spawn error is returned to the caller
SpawnChild ==
    /\ ipc = "spawn"
    /\ \E ok \in BOOLEAN :
        IF ok
        THEN child' = "running" /\ ipc' = "for_stdout_line"
        ELSE child' = child /\ ipc' = "returned"
    /\ UNCHANGED <<childAtDrop, termSent, pipe, written, reader, readerSaw,
                   exitObserved>>
    /\ UNCHANGED <<handlerVars, bcVars, mainVars, filterVars>>

\* for_stdout_line / for_stderr_line: take the stream, spawn the thread that reads it
spawn_reader(s) == reader' = [reader EXCEPT ![s] = "running"]

\* lines 51-55
ForStdoutLine ==
    /\ ipc = "for_stdout_line"
    /\ spawn_reader("stdout")
    /\ ipc' = "for_stderr_line"
    /\ UNCHANGED <<child, childAtDrop, termSent, pipe, written, readerSaw,
                   exitObserved>>
    /\ UNCHANGED <<handlerVars, bcVars, mainVars, filterVars>>

\* lines 57-61
ForStderrLine ==
    /\ ipc = "for_stderr_line"
    /\ spawn_reader("stderr")
    /\ ipc' = "wait"
    /\ UNCHANGED <<child, childAtDrop, termSent, pipe, written, readerSaw,
                   exitObserved>>
    /\ UNCHANGED <<handlerVars, bcVars, mainVars, filterVars>>

\* the build writes a line to one of its outputs; the line may be one that the
\* reader cannot decode
ChildWrites ==
    /\ child = "running"
    /\ \E s \in Streams, item \in Items :
        /\ written[s] < MaxLines
        /\ pipe' = [pipe EXCEPT ![s] = Append(@, item)]
        /\ written' = [written EXCEPT ![s] = @ + 1]
    /\ UNCHANGED <<ipc, child, childAtDrop, termSent, reader, readerSaw,
                   exitObserved>>
    /\ UNCHANGED <<handlerVars, bcVars, mainVars, filterVars>>

\* the build ends, by itself or by a signal, and its ends of the pipes are closed
ChildExits ==
    /\ child = "running"
    /\ child' = "exited"
    /\ UNCHANGED <<ipc, childAtDrop, termSent, pipe, written, reader, readerSaw,
                   exitObserved>>
    /\ UNCHANGED <<handlerVars, bcVars, mainVars, filterVars>>

\* the body of the reader's loop: `if let Some(Ok(line)) = lines.next() { f(&line) }`.
\* Whatever next() gives, a line, an error or the end of the stream, the loop goes
\* round again: it has no break
reader_loop(s, result) == reader' = reader

\* one turn of a reader's loop; next() blocks while the pipe is empty and open
ReaderStep(s) ==
    /\ reader[s] = "running"
    /\ IF pipe[s] # <<>>
       THEN /\ readerSaw' = [readerSaw EXCEPT ![s] = Head(pipe[s])]
            /\ pipe' = [pipe EXCEPT ![s] = Tail(@)]
            /\ reader_loop(s, Head(pipe[s]))
       ELSE /\ child \in {"exited", "reaped"}
            /\ readerSaw' = [readerSaw EXCEPT ![s] = "eof"]
            /\ reader_loop(s, "eof")
            /\ UNCHANGED pipe
    /\ UNCHANGED <<ipc, child, childAtDrop, termSent, written, exitObserved>>
    /\ UNCHANGED <<handlerVars, bcVars, mainVars, filterVars>>

\* a runner that reads the outputs to their end before it looks at the exit
Wait_after_readers ==
    /\ ipc = "wait"
    /\ child = "exited"
    /\ \A s \in Streams : readerSaw[s] = "eof"
    /\ child' = "reaped"
    /\ exitObserved' = TRUE
    /\ ipc' = "drop"
    /\ UNCHANGED <<childAtDrop, termSent, pipe, written, reader, readerSaw>>
    /\ UNCHANGED <<handlerVars, bcVars, mainVars, filterVars>>

\* lines 63-73: build_process.wait() returns once the child has exited, the
\* status is logged and Ok(()) returned, which drops build_process
Wait ==
    /\ ipc = "wait"
    /\ child = "exited"
    /\ child' = "reaped"
    /\ exitObserved' = TRUE
    /\ ipc' = "drop"
    /\ UNCHANGED <<childAtDrop, termSent, pipe, written, reader, readerSaw>>
    /\ UNCHANGED <<handlerVars, bcVars, mainVars, filterVars>>

\* the thread unwinds while it holds the handle (the unwraps of lines 55 and 61),
\* which drops build_process before any wait
Unwind ==
    /\ ipc \in {"for_stdout_line", "for_stderr_line"}
    /\ ipc' = "drop"
    /\ UNCHANGED <<child, childAtDrop, termSent, pipe, written, reader, readerSaw,
                   exitObserved>>
    /\ UNCHANGED <<handlerVars, bcVars, mainVars, filterVars>>

\* DroppyChild::drop, lines 113-119: kill(pid, SIGTERM).  It fails when there is
\* no such process any more (the child was reaped at line 63) and drop returns
DropSignal ==
    /\ ipc = "drop"
    /\ childAtDrop' = child
    /\ IF child \in {"running", "exited"}
       THEN termSent' = TRUE /\ ipc' = "drop_wait"
       ELSE termSent' = termSent /\ ipc' = "returned"
    /\ UNCHANGED <<child, pipe, written, reader, readerSaw, exitObserved>>
    /\ UNCHANGED <<handlerVars, bcVars, mainVars, filterVars>>

\* a drop that returns after the signal without waiting for the child
DropWait_without_waiting ==
    /\ ipc = "drop_wait"
    /\ child' = (IF child = "exited" THEN "reaped" ELSE child)
    /\ ipc' = "returned"
    /\ UNCHANGED <<childAtDrop, termSent, pipe, written, reader, readerSaw,
                   exitObserved>>
    /\ UNCHANGED <<handlerVars, bcVars, mainVars, filterVars>>

\* DroppyChild::drop, lines 120-125: inner.wait() returns once the child has exited
DropWait ==
    /\ ipc = "drop_wait"
    /\ child = "exited"
    /\ child' = "reaped"
    /\ ipc' = "returned"
    /\ UNCHANGED <<childAtDrop, termSent, pipe, written, reader, readerSaw,
                   exitObserved>>
    /\ UNCHANGED <<handlerVars, bcVars, mainVars, filterVars>>

NextRun ==
    \/ SpawnChild
    \/ ForStdoutLine
    \/ ForStderrLine
    \/ ChildWrites
    \/ ChildExits
    \/ \E s \in Streams : ReaderStep(s)
    \/ Wait
    \/ Unwind
    \/ DropSignal
    \/ DropWait

(***************************************************************************)
(* main: the startup sequence, the serving state and the shutdown.  Every  *)
(* .unwrap() and panic! of main is a panic of the process: the locals are  *)
(* dropped and the process exits with the status of a panic.               *)
(***************************************************************************)
EnvVars == {"_TESTING_MODE", "_PRINT_STATE_FOR_TESTING"}

\* StateForTesting::ENV_VAR
ENV_VAR == "_PRINT_STATE_FOR_TESTING"

\* the statements of main before the handshake line is written
PreHandshake == {"git_toplevel", "check_ignore", "build_spawn", "build_wait", "bind",
                 "create_signals", "build_server", "browser_data_dir",
                 "browser_launch", "handshake"}

InitMain ==
    /\ mpc = "git_toplevel"
    /\ env \in SUBSET EnvVars
    /\ sigHandlers = FALSE
    /\ sigStream = 0
    /\ mSignalsSent = 0
    /\ initialBuild = "none"
    /\ server = "none"
    /\ browserDataDir = FALSE
    /\ browser = "none"
    /\ browserOwned = FALSE
    /\ stdout = <<>>
    /\ exit = "running"
    /\ startupError = "none"
    /\ sigBeforeHandshake = FALSE
    /\ sigAfterHandshake = FALSE
    /\ request = "none"

\* dropping main's locals: kill_on_drop kills a running build and an owned browser,
\* the TempDir removes the browser data directory, the listener is closed
DropLocals ==
    /\ initialBuild' = IF initialBuild = "running" THEN "killed" ELSE initialBuild
    /\ browser' = IF browserOwned /\ browser = "alive" THEN "killed" ELSE browser
    /\ browserOwned' = FALSE
    /\ browserDataDir' = FALSE
    /\ server' = IF server \in {"none", "shutdown"} THEN server ELSE "dropped"

\* main returning an error instead of panicking: exit status 1
Panic_exit1(cause) ==
    /\ mpc' = "exited"
    /\ exit' = "exit1"
    /\ startupError' = cause
    /\ DropLocals
    /\ UNCHANGED <<env, sigHandlers, sigStream, mSignalsSent, stdout,
                   sigBeforeHandshake, sigAfterHandshake, request>>

\* a panic in main: unwinding drops the locals, the process exits with status 101
Panic(cause) ==
    /\ mpc' = "exited"
    /\ exit' = "exit101"
    /\ startupError' = cause
    /\ DropLocals
    /\ UNCHANGED <<env, sigHandlers, sigStream, mSignalsSent, stdout,
                   sigBeforeHandshake, sigAfterHandshake, request>>

\* main goes on to its next statement
Goto(next) ==
    /\ mpc' = next
    /\ UNCHANGED <<env, mSignalsSent, exit, startupError, sigStream,
                   sigBeforeHandshake, sigAfterHandshake, request>>

\* lines 42-70: git rev-parse --show-toplevel
ResolveProjectRoot ==
    /\ mpc = "git_toplevel"
    /\ \E r \in {"ok", "git_not_executable", "not_a_repository"} :
        IF r = "ok"
        THEN /\ Goto("check_ignore")
             /\ UNCHANGED <<sigHandlers, initialBuild, server, browserDataDir, browser,
                            browserOwned, stdout>>
        ELSE Panic(r)
    /\ UNCHANGED <<handlerVars, bcVars, filterVars, runVars>>

\* lines 72-99: git check-ignore on the serve path
CheckServePathIgnored ==
    /\ mpc = "check_ignore"
    /\ \E r \in {"ok", "git_not_executable", "serve_path_not_ignored"} :
        IF r = "ok"
        THEN /\ Goto("build_spawn")
             /\ UNCHANGED <<sigHandlers, initialBuild, server, browserDataDir, browser,
                            browserOwned, stdout>>
        ELSE Panic(r)
    /\ UNCHANGED <<handlerVars, bcVars, filterVars, runVars>>

\* lines 101-124: spawn the build command
SpawnInitialBuild ==
    /\ mpc = "build_spawn"
    /\ \E r \in {"ok", "build_command_not_found", "build_command_not_executable"} :
        IF r = "ok"
        THEN /\ Goto("build_wait")
             /\ initialBuild' = "running"
             /\ UNCHANGED <<sigHandlers, server, browserDataDir, browser,
                            browserOwned, stdout>>
        ELSE Panic(r)
    /\ UNCHANGED <<handlerVars, bcVars, filterVars, runVars>>

\* lines 126-136: wait for the build; a build that did not succeed is a panic
WaitInitialBuild ==
    /\ mpc = "build_wait"
    /\ initialBuild = "running"
    /\ \E r \in {"succeeded", "failed"} :
        IF r = "succeeded"
        THEN /\ Goto("bind")
             /\ initialBuild' = "succeeded"
             /\ UNCHANGED <<sigHandlers, server, browserDataDir, browser,
                            browserOwned, stdout>>
        ELSE /\ mpc' = "exited"
             /\ exit' = "exit101"
             /\ startupError' = "build_failed"
             /\ initialBuild' = "failed"
             /\ UNCHANGED <<env, sigHandlers, sigStream, mSignalsSent, server,
                            browserDataDir, browser, browserOwned, stdout,
                            sigBeforeHandshake, sigAfterHandshake, request>>
    /\ UNCHANGED <<handlerVars, bcVars, filterVars, runVars>>

\* lines 138-178: bind the listener to 127.0.0.1:0
BindListener ==
    /\ mpc = "bind"
    /\ \E r \in {"ok", "bind_failed"} :
        IF r = "ok"
        THEN /\ Goto("create_signals")
             /\ server' = "bound"
             /\ UNCHANGED <<sigHandlers, initialBuild, browserDataDir, browser,
                            browserOwned, stdout>>
        ELSE Panic(r)
    /\ UNCHANGED <<handlerVars, bcVars, filterVars, runVars>>

\* lines 180-184: signals::create_signals registers the handlers
CreateSignals ==
    /\ mpc = "create_signals"
    /\ \E r \in {"ok", "create_signals_failed"} :
        IF r = "ok"
        THEN /\ Goto("build_server")
             /\ sigHandlers' = TRUE
             /\ UNCHANGED <<initialBuild, server, browserDataDir, browser,
                            browserOwned, stdout>>
        ELSE Panic(r)
    /\ UNCHANGED <<handlerVars, bcVars, filterVars, runVars>>

\* lines 186-201: the hyper server on the listener, with graceful shutdown
BuildServer ==
    /\ mpc = "build_server"
    /\ \E r \in {"ok", "server_creation_failed"} :
        IF r = "ok"
        THEN /\ Goto("browser_data_dir")
             /\ server' = "built"
             /\ UNCHANGED <<sigHandlers, initialBuild, browserDataDir, browser,
                            browserOwned, stdout>>
        ELSE Panic(r)
    /\ UNCHANGED <<handlerVars, bcVars, filterVars, runVars>>

\* lines 203-207: the temporary browser data directory
CreateBrowserDataDir ==
    /\ mpc = "browser_data_dir"
    /\ \E r \in {"ok", "tempdir_failed"} :
        IF r = "ok"
        THEN /\ Goto("browser_launch")
             /\ browserDataDir' = TRUE
             /\ UNCHANGED <<sigHandlers, initialBuild, server, browser,
                            browserOwned, stdout>>
        ELSE Panic(r)
    /\ UNCHANGED <<handlerVars, bcVars, filterVars, runVars>>

\* main going on to the handshake without a browser
LaunchBrowser_skipped ==
    /\ mpc = "browser_launch"
    /\ Goto("handshake")
    /\ UNCHANGED <<sigHandlers, initialBuild, server, browserDataDir, browser,
                   browserOwned, stdout>>
    /\ UNCHANGED <<handlerVars, bcVars, filterVars, runVars>>

\* lines 209-242: launch the browser and read its pid
LaunchBrowser ==
    /\ mpc = "browser_launch"
    /\ \E r \in {"ok", "browser_launch_failed"} :
        IF r = "ok"
        THEN /\ Goto("handshake")
             /\ browser' = "alive"
             /\ browserOwned' = TRUE
             /\ UNCHANGED <<sigHandlers, initialBuild, server, browserDataDir, stdout>>
        ELSE Panic(r)
    /\ UNCHANGED <<handlerVars, bcVars, filterVars, runVars>>

\* the line println! writes at line 255
HandshakeLine == [serve_port |-> "listener port", browser_pid |-> "browser pid"]

\* lines 244-256: the handshake line, when the environment variable is set
WriteHandshake ==
    /\ mpc = "handshake"
    /\ Goto("forget")
    /\ stdout' = IF ENV_VAR \in env THEN Append(stdout, HandshakeLine) ELSE stdout
    /\ UNCHANGED <<sigHandlers, initialBuild, server, browserDataDir, browser,
                   browserOwned>>
    /\ UNCHANGED <<handlerVars, bcVars, filterVars, runVars>>

\* main without the mem::forget: the Browser value stays owned until main returns
ForgetBrowser_skipped ==
    /\ mpc = "forget"
    /\ Goto("await_server")
    /\ UNCHANGED <<sigHandlers, initialBuild, server, browserDataDir, browser,
                   browserOwned, stdout>>
    /\ UNCHANGED <<handlerVars, bcVars, filterVars, runVars>>

\* lines 258-260: mem::forget(browser)
ForgetBrowser ==
    /\ mpc = "forget"
    /\ Goto("await_server")
    /\ browserOwned' = FALSE
    /\ UNCHANGED <<sigHandlers, initialBuild, server, browserDataDir, browser, stdout>>
    /\ UNCHANGED <<handlerVars, bcVars, filterVars, runVars>>

\* line 262: server.await starts to serve
AwaitServer ==
    /\ mpc = "await_server"
    /\ Goto("serving")
    /\ server' = "serving"
    /\ UNCHANGED <<sigHandlers, initialBuild, browserDataDir, browser, browserOwned,
                   stdout>>
    /\ UNCHANGED <<handlerVars, bcVars, filterVars, runVars>>

\* a server built without with_graceful_shutdown: the signal is read and dropped
GracefulShutdown_ignored ==
    /\ mpc = "serving"
    /\ sigStream > 0
    /\ sigStream' = sigStream - 1
    /\ UNCHANGED <<mpc, env, sigHandlers, mSignalsSent, initialBuild, server,
                   browserDataDir, browser, browserOwned, stdout, exit, startupError,
                   sigBeforeHandshake, sigAfterHandshake, request>>
    /\ UNCHANGED <<handlerVars, bcVars, filterVars, runVars>>

\* a server that stops by itself, no signal received
GracefulShutdown_spontaneous ==
    /\ mpc = "serving"
    /\ mpc' = "close"
    /\ server' = "shutdown"
    /\ request' = IF request = "pending" THEN "refused" ELSE request
    /\ UNCHANGED <<env, sigHandlers, sigStream, mSignalsSent, initialBuild,
                   browserDataDir, browser, browserOwned, stdout, exit, startupError,
                   sigBeforeHandshake, sigAfterHandshake>>
    /\ UNCHANGED <<handlerVars, bcVars, filterVars, runVars>>

\* line 262: wait_for_signals yields a signal, the server shuts down gracefully
GracefulShutdown ==
    /\ mpc = "serving"
    /\ sigStream > 0
    /\ mpc' = "close"
    /\ sigStream' = sigStream - 1
    /\ server' = "shutdown"
    /\ request' = IF request = "pending" THEN "refused" ELSE request
    /\ UNCHANGED <<env, sigHandlers, mSignalsSent, initialBuild, browserDataDir, browser,
                   browserOwned, stdout, exit, startupError, sigBeforeHandshake,
                   sigAfterHandshake>>
    /\ UNCHANGED <<handlerVars, bcVars, filterVars, runVars>>

\* lines 263-264: handle.close(), main returns and its locals are dropped
CloseAndReturn ==
    /\ mpc = "close"
    /\ mpc' = "exited"
    /\ exit' = "exit0"
    /\ DropLocals
    /\ UNCHANGED <<env, sigHandlers, sigStream, mSignalsSent, stdout, startupError,
                   sigBeforeHandshake, sigAfterHandshake, request>>
    /\ UNCHANGED <<handlerVars, bcVars, filterVars, runVars>>

\* signal handlers that work once: a signal that follows a first one kills the
\* process at once, as one does while no handler is registered
DeliverSignal_second_kills ==
    /\ exit = "running"
    /\ mSignalsSent < MaxSignals
    /\ mSignalsSent' = mSignalsSent + 1
    /\ \E sig \in ShutdownSignals :
        /\ sigBeforeHandshake' = (sigBeforeHandshake \/ mpc \in PreHandshake)
        /\ sigAfterHandshake' =
               (sigAfterHandshake \/ (mpc \notin PreHandshake /\ stdout # <<>>))
    /\ IF sigHandlers /\ mSignalsSent = 0
       THEN /\ sigStream' = sigStream + 1
            /\ UNCHANGED <<mpc, exit>>
       ELSE /\ mpc' = "exited"
            /\ exit' = "signalled"
            /\ UNCHANGED sigStream
    /\ UNCHANGED <<env, sigHandlers, initialBuild, server, browserDataDir, browser,
                   browserOwned, stdout, startupError, request>>
    /\ UNCHANGED <<handlerVars, bcVars, filterVars, runVars>>

\* a signals stream that keeps only what arrives while it is polled: a signal
\* delivered before server.await is lost
DeliverSignal_lost_before_serving ==
    /\ exit = "running"
    /\ mSignalsSent < MaxSignals
    /\ mSignalsSent' = mSignalsSent + 1
    /\ \E sig \in ShutdownSignals :
        /\ sigBeforeHandshake' = (sigBeforeHandshake \/ mpc \in PreHandshake)
        /\ sigAfterHandshake' =
               (sigAfterHandshake \/ (mpc \notin PreHandshake /\ stdout # <<>>))
    /\ IF sigHandlers
       THEN /\ sigStream' = IF mpc = "serving" THEN sigStream + 1 ELSE sigStream
            /\ UNCHANGED <<mpc, exit>>
       ELSE /\ mpc' = "exited"
            /\ exit' = "signalled"
            /\ UNCHANGED sigStream
    /\ UNCHANGED <<env, sigHandlers, initialBuild, server, browserDataDir, browser,
                   browserOwned, stdout, startupError, request>>
    /\ UNCHANGED <<handlerVars, bcVars, filterVars, runVars>>

\* SIGINT, SIGTERM or SIGQUIT is delivered to the process: without handlers it
\* kills the process at once, with handlers it waits in the signals stream
DeliverSignal ==
    /\ exit = "running"
    /\ mSignalsSent < MaxSignals
    /\ mSignalsSent' = mSignalsSent + 1
    /\ \E sig \in ShutdownSignals :
        /\ sigBeforeHandshake' = (sigBeforeHandshake \/ mpc \in PreHandshake)
        /\ sigAfterHandshake' =
               (sigAfterHandshake \/ (mpc \notin PreHandshake /\ stdout # <<>>))
    /\ IF sigHandlers
       THEN /\ sigStream' = sigStream + 1
            /\ UNCHANGED <<mpc, exit>>
       ELSE /\ mpc' = "exited"
            /\ exit' = "signalled"
            /\ UNCHANGED sigStream
    /\ UNCHANGED <<env, sigHandlers, initialBuild, server, browserDataDir, browser,
                   browserOwned, stdout, startupError, request>>
    /\ UNCHANGED <<handlerVars, bcVars, filterVars, runVars>>

\* a client that has read the handshake line sends a request to the reported port:
\* the connection waits in the backlog of the listener, or is refused when the
\* listener is closed
SendRequest ==
    /\ stdout # <<>>
    /\ request = "none"
    /\ request' = IF server \in {"bound", "built", "serving"} THEN "pending"
                  ELSE "refused"
    /\ UNCHANGED <<mpc, env, sigHandlers, sigStream, mSignalsSent, initialBuild, server,
                   browserDataDir, browser, browserOwned, stdout, exit, startupError,
                   sigBeforeHandshake, sigAfterHandshake>>
    /\ UNCHANGED <<handlerVars, bcVars, filterVars, runVars>>

\* line 262: the server, polled by server.await, accepts the connection and
\* answers from the serve path
ServeRequest ==
    /\ mpc = "serving"
    /\ request = "pending"
    /\ request' = "served"
    /\ UNCHANGED <<mpc, env, sigHandlers, sigStream, mSignalsSent, initialBuild, server,
                   browserDataDir, browser, browserOwned, stdout, exit, startupError,
                   sigBeforeHandshake, sigAfterHandshake>>
    /\ UNCHANGED <<handlerVars, bcVars, filterVars, runVars>>

MainStep ==
    \/ ResolveProjectRoot
    \/ CheckServePathIgnored
    \/ SpawnInitialBuild
    \/ WaitInitialBuild
    \/ BindListener
    \/ CreateSignals
    \/ BuildServer
    \/ CreateBrowserDataDir
    \/ LaunchBrowser
    \/ WriteHandshake
    \/ ForgetBrowser
    \/ AwaitServer
    \/ ServeRequest
    \/ GracefulShutdown
    \/ CloseAndReturn

NextMain == MainStep \/ DeliverSignal \/ SendRequest

(***************************************************************************)
(* Browser::init of src/src/browser.rs: the launch of the browser as a     *)
(* function of its own, in the place of lines 203-242 of main.             *)
(***************************************************************************)
\* browser.rs line 15: tempdir()?, a local of Browser::init
Browser_init_tempdir ==
    /\ mpc = "browser_data_dir"
    /\ \E r \in {"ok", "tempdir_failed"} :
        IF r = "ok"
        THEN /\ Goto("browser_init_launch")
             /\ browserDataDir' = TRUE
             /\ UNCHANGED <<sigHandlers, initialBuild, server, browser,
                            browserOwned, stdout>>
        ELSE Panic(r)
    /\ UNCHANGED <<handlerVars, bcVars, filterVars, runVars>>

\* browser.rs lines 19-40: the browser is launched and leaked with Box::leak, so
\* nothing kills it on drop; Browser::init returns and its local TempDir is
\* dropped, which removes the directory, also when the launch failed
Browser_init_launch ==
    /\ mpc = "browser_init_launch"
    /\ \E r \in {"ok", "browser_launch_failed"} :
        IF r = "ok"
        THEN /\ Goto("handshake")
             /\ browser' = "alive"
             /\ browserOwned' = FALSE
             /\ browserDataDir' = FALSE
             /\ UNCHANGED <<sigHandlers, initialBuild, server, stdout>>
        ELSE Panic(r)
    /\ UNCHANGED <<handlerVars, bcVars, filterVars, runVars>>

NextBrowser ==
    \/ ResolveProjectRoot
    \/ CheckServePathIgnored
    \/ SpawnInitialBuild
    \/ WaitInitialBuild
    \/ BindListener
    \/ CreateSignals
    \/ BuildServer
    \/ Browser_init_tempdir
    \/ Browser_init_launch
    \/ WriteHandshake
    \/ ForgetBrowser
    \/ AwaitServer
    \/ ServeRequest
    \/ GracefulShutdown
    \/ CloseAndReturn
    \/ DeliverSignal
    \/ SendRequest

Init == InitHandler /\ InitBuildCommand /\ InitMain /\ InitFilter /\ InitRun

Next == NextHandler \/ NextBuildCommand \/ NextMain \/ NextFilter \/ NextRun

\* the handler and BuildCommand read no environment variable
InitNoEnv == Init /\ env = {}

SpecHandler == InitNoEnv /\ [][NextHandler]_vars

SpecBuildCommand == InitNoEnv /\ [][NextBuildCommand]_vars

SpecMain == Init /\ [][NextMain]_vars

SpecFilter == InitNoEnv /\ [][NextFilter]_vars

\* main with its browser from Browser::init
SpecBrowser == Init /\ [][NextBrowser]_vars

SpecRun == InitNoEnv /\ [][NextRun]_vars

\* the thread of invoke_and_wait is a running thread: its wait returns when it can
FairSpecRun == SpecRun /\ WF_vars(Wait)

\* main is a running task: a statement that can run does run
FairSpecMain == SpecMain /\ WF_vars(MainStep)

Spec == Init /\ [][Next]_vars

(***************************************************************************)
(* Properties.                                                             *)
(***************************************************************************)

\* C1: when every accepted file event after the one that started the first build
\* arrives while that build is running, at most two builds are ever started
\* (stated for the runs in which no two builds ever overlap).
C1_AtMostTwoBuilds == (~stray /\ ~overlapped) => buildsStarted <= 2

\* C2: at most one build subprocess is live at any moment.
C2_AtMostOneLiveBuild == jobs <= 1

\* no invoke_or_queue thread is at work
BCQuiescent == \A t \in Threads : pc[t] \in {"unspawned", "done", "panicked"}

\* C3: a build request that arrived while a build was running is not lost: once
\* every thread has finished, a build was started after the request.
C3_NoUpdateLost == BCQuiescent => ~bcPendingUpdate

\* C4: a build that ends in failure does not end the supervisor.
C4_BuildFailureDoesNotHalt == initialBuild = "failed" => exit = "running"

\* C5: after a failed spawn of the build command, a request that is handled while
\* no build is in flight goes on to spawn the build command.
C5_SpawnFailureAllowsRetry ==
    [][\A t \in Threads :
          (pc[t] = "lock" /\ pc'[t] # "lock" /\ bcSpawnFailed /\ NoBuildInFlight)
              => pc'[t] = "spawn"]_vars

\* the unrecoverable startup errors the claim names
UnrecoverableStartupErrors ==
    {"not_a_repository", "git_not_executable", "build_command_not_found",
     "build_command_not_executable", "bind_failed", "browser_launch_failed"}

\* C6: every unrecoverable startup error ends the process with status 101 and
\* without a handshake line.
C6_StartupErrorExits101 ==
    startupError \in UnrecoverableStartupErrors
        => (exit = "exit101" /\ stdout = <<>>)

C6_Witness ==
    /\ startupError = "browser_launch_failed"
    /\ ENV_VAR \in env
    /\ exit = "exit101"

\* C7: a shutdown signal delivered before the handshake line is written ends the
\* process with a status other than 0 and the handshake line is never written.
C7_EarlySignalNoHandshake ==
    sigBeforeHandshake => (stdout = <<>> /\ exit # "exit0")

\* C8: after the handshake line, a shutdown signal leads to the graceful shutdown
\* of the server and to the exit of the process with status 0.
C8_SignalAfterHandshakeExitsZero ==
    sigAfterHandshake ~> (exit = "exit0" /\ server = "shutdown")

C8_Witness == sigAfterHandshake /\ exit = "exit0" /\ server = "shutdown"

\* C9: once the supervisor has exited, no build subprocess it started is running.
C9_NoOrphanBuild == exit # "running" => initialBuild # "running"

\* C10: after the supervisor exits with status 0 on a signal received after the
\* handshake line, the browser of the handshake is alive.
C10_BrowserSurvivesShutdown ==
    (exit = "exit0" /\ sigAfterHandshake) => browser = "alive"

C10_Witness == exit = "exit0" /\ sigAfterHandshake /\ browser = "alive"

\* C11: once the process has exited (on a signal, a startup error or an orderly
\* shutdown) the serve directory and the browser data directory are gone.
C11_DirectoriesRemovedOnExit ==
    /\ wexit # "running" => ~serveDir
    /\ exit # "running" => ~browserDataDir

\* the kinds that are changes of content
ChangeKinds == {"Create", "Modify", "Remove"}

\* the step is the watcher producing a raw event
RawEventStep == fileEventsSent' = fileEventsSent + 1

\* the step leaves the event channel, the jobs and the queue flag as they are
NothingStarted ==
    /\ events' = events
    /\ jobs' = jobs
    /\ buildsStarted' = buildsStarted
    /\ is_build_queued' = is_build_queued

\* C12: a raw event with a path inside .git, of whatever kind, is rejected: it does
\* not enter the event channel, so no build is started and the flag is not set.
C12_DotGitRejected ==
    [][/\ (RawEventStep /\ lastRaw'.path = "dotgit") => NothingStarted
       /\ \A i \in 1..Len(events') : events'[i].path # "dotgit"
       /\ lastRaw'.path = "dotgit" => ~EventFilter_check_event(lastRaw')]_vars

C12_Witness ==
    /\ lastRaw.path = "dotgit"
    /\ lastRaw.kind = "Other"
    /\ events = <<>>
    /\ buildsStarted = 0

\* C13: a raw event on an ignored path starts no build and leaves the build count
\* unchanged, while the creation of a file on a path that is not ignored is let
\* through to the handler.
C13_IgnoredRejectedOthersBuild ==
    [][/\ (RawEventStep /\ lastRaw'.path = "ignored") => NothingStarted
       /\ (RawEventStep /\ lastRaw'.path = "tracked" /\ lastRaw'.kind = "Create")
              => events' = Append(events, lastRaw')]_vars

\* C14: a raw event whose kind is not Create, Modify or Remove is rejected.
C14_OtherKindsRejected ==
    [][(RawEventStep /\ lastRaw'.kind \notin ChangeKinds) => NothingStarted]_vars

\* C15: a raw event of kind Create, Modify or Remove on a path outside .git that no
\* ignore rule matches enters the event channel, and the handler starts a build for
\* a path event it finds while no build is running.
C15_ChangesAccepted ==
    [][/\ (RawEventStep /\ lastRaw'.kind \in ChangeKinds /\ lastRaw'.path = "tracked")
              => events' = Append(events, lastRaw')
       /\ (events # <<>> /\ events' = Tail(events) /\ Head(events).path # "none"
              /\ jobs = 0)
              => jobs' = 1]_vars

\* C20: every job the handler creates has the spawn hook that sets SERVE_PATH and
\* pipes the output of the build into the log.
C20_EveryBuildHasServePathAndLog == ~unhooked

\* main has passed the handshake step
StartupComplete == mpc \in {"forget", "await_server", "serving", "close"} \/ exit = "exit0"

\* C16: at most one line is ever written to stdout; once startup is complete there
\* is exactly one line when _TESTING_MODE is set, and none when it is not set.
C16_OneHandshakeLineIffTestingMode ==
    /\ Len(stdout) <= 1
    /\ "_TESTING_MODE" \notin env => stdout = <<>>
    /\ (StartupComplete /\ "_TESTING_MODE" \in env) => Len(stdout) = 1

\* the initial build has run to its end
InitialBuildCompleted == initialBuild \in {"succeeded", "failed"}

\* C17: the handshake line is on stdout only after the initial build has completed,
\* the listener is bound and the browser is launched; a request sent to the
\* reported port after reading the line is answered only with the initial build
\* completed, and is refused only if a signal was delivered.
C17_HandshakeAfterStartup ==
    /\ stdout # <<>> =>
          (InitialBuildCompleted /\ server # "none" /\ browser # "none")
    /\ request = "served" => InitialBuildCompleted
    /\ request = "refused" => mSignalsSent > 0

C17_Witness == stdout # <<>> /\ request = "served" /\ mSignalsSent = 0

\* the order of main's statements
MainRank(l) ==
    CASE l = "git_toplevel" -> 0
      [] l = "check_ignore" -> 1
      [] l = "build_spawn" -> 2
      [] l = "build_wait" -> 3
      [] l = "bind" -> 4
      [] l = "create_signals" -> 5
      [] l = "build_server" -> 6
      [] l = "browser_data_dir" -> 7
      [] l = "browser_launch" -> 8
      [] l = "handshake" -> 9
      [] l = "forget" -> 10
      [] l = "await_server" -> 11
      [] l = "serving" -> 12
      [] l = "close" -> 13
      [] l = "exited" -> 14

C19_FailedInitialBuildAdvances ==
    [][(initialBuild = "running" /\ initialBuild' = "failed") => mpc' = "bind"]_vars

\* what an observer of the process sees: its exit status, the processes it started,
\* the directories it created, its output and its server
Observable ==
    <<mpc, exit, initialBuild, browser, browserOwned, browserDataDir, server, stdout,
      request>>

\* C21: a shutdown signal delivered after another one changes nothing observable:
\* it only waits in the signals stream, and the process that returns after two
\* signals returns as after one: status 0, the server shut down, the browser left
\* alive, the browser data directory removed.
C21_SecondSignalChangesNothing ==
    [][/\ (mSignalsSent' = mSignalsSent + 1 /\ mSignalsSent >= 1)
              => Observable' = Observable
       /\ (exit = "running" /\ exit' = "exit0")
              => (mSignalsSent \in 1..MaxSignals /\ server' = "shutdown"
                    /\ browser' = "alive" /\ ~browserDataDir')]_vars

C21_Witness ==
    /\ mSignalsSent = 2
    /\ exit = "exit0"
    /\ server = "shutdown"
    /\ browser = "alive"

HandlerStep == events # <<>> /\ events' = Tail(events)

\* the event at the head of the channel is a completion and nothing else
IsCompletion(ends) ==
    /\ Head(events).signal = "none"
    /\ Head(events).marker # "initial-build"
    /\ Head(events).path = "none"
    /\ Head(events).end \in ends

\* C23: the handler, given a terminal completion, starts exactly one build and
\* leaves the flag false if the flag was set, and starts no build if it was not.
C23_DrainStep ==
    [][(HandlerStep /\ IsCompletion(TerminalEnds)) =>
          IF is_build_queued
          THEN jobs' = jobs + 1 /\ ~is_build_queued'
          ELSE jobs' = jobs /\ ~is_build_queued']_vars

\* C24: the queue flag is true only while a build is running or its completion
\* waits to be handled, and sync_state is RunningAndQueued only while a thread
\* is running a build or is about to.
C24_QueuedImpliesBuildRunning ==
    /\ is_build_queued =>
          (jobs > 0 \/ \E i \in 1..Len(events) : events[i].end \in TerminalEnds)
    /\ sync_state = "RunningAndQueued" => ~NoBuildInFlight

\* C25: a path event handled while a build is live starts no build and leaves the
\* flag true; with the flag already true the step changes neither flag nor jobs.
C25_QueueingIsIdempotent ==
    [][(HandlerStep /\ Head(events).signal = "none" /\ Head(events).path # "none"
          /\ jobs > 0)
          => /\ jobs' = jobs
             /\ buildsStarted' = buildsStarted
             /\ is_build_queued'
             /\ is_build_queued => UNCHANGED <<jobs, is_build_queued, buildsStarted,
                                               quitting, unhooked>>]_vars

C25_Witness ==
    /\ is_build_queued
    /\ jobs = 1
    /\ buildsStarted = 1
    /\ events # <<>>
    /\ Head(events).path # "none"

\* C26: the initial event that startup sends is let through by the filter, and the
\* handler, given it, starts a build.
C26_InitialEventStartsBuild ==
    [][/\ (~initialSent /\ initialSent') => events' = Append(events, initial_event)
       /\ (HandlerStep /\ Head(events) = initial_event)
              => (jobs' = jobs + 1 /\ buildsStarted' = 1)]_vars

\* the event went through the filter
Checked == checkedVerdict # "unchecked"

\* C27: an event with the marker of initial_event() is accepted, whatever its path
\* and kind.
C27_InitialMarkerPassesFilter ==
    (Checked /\ checkedEvent.marker = initial_event.marker)
        => checkedVerdict = "accept"

\* C28: an event without a file-event kind and without a marker is rejected.
C28_NoKindRejected ==
    (Checked /\ checkedEvent.kind = "none" /\ checkedEvent.marker = "none")
        => checkedVerdict = "reject"

\* C29: the handler, given a Continued completion, starts no build and leaves the
\* flag and the jobs unchanged.
C29_ContinuedOnlyLogged ==
    [][(HandlerStep /\ IsCompletion({"Continued"}))
          => UNCHANGED <<jobs, is_build_queued, buildsStarted, quitting,
                         unhooked>>]_vars

C29_Witness == continuedHandled /\ is_build_queued /\ jobs = 1

ReaderBehind == \E s \in Streams : reader[s] = "running" /\ readerSaw[s] # "eof"

\* C33: once the build has exited, its exit is observed, whatever the readers do
\* and however far each of them has read.
C33_ExitObservedWhateverReadersDo ==
    (ipc = "wait" /\ child = "exited" /\ ReaderBehind) ~> exitObserved

C33_Witness ==
    /\ exitObserved
    /\ pipe["stdout"] # <<>>
    /\ readerSaw["stderr"] = "eof"

\* C34: a reader whose read gave an error has exited.
C34_ReaderExitsOnReadError ==
    \A s \in Streams : readerSaw[s] = "error" => reader[s] = "exited"

\* C38: a reader that has reached the end of its stream has exited.
C38_ReaderExitsAtEndOfStream ==
    \A s \in Streams : readerSaw[s] = "eof" => reader[s] = "exited"

\* the checked event is the completion of a build and nothing else
CheckedTerminalCompletion ==
    /\ Checked
    /\ checkedEvent = CompletionEvent(checkedEvent.end)
    /\ checkedEvent.end \in TerminalEnds

\* C35: the terminal completion of a build, which has neither path nor kind, is
\* accepted by the filter, that of event_filterer.rs and that of file_watching.rs.
C35_CompletionPassesFilter ==
    CheckedTerminalCompletion
        => (checkedVerdict = "accept" /\ fileWatchingVerdict = "accept")

\* C36: a signal delivered once the signals stream exists, the launch of the
\* browser included, is kept: the process goes on to exit, and with status 0 only
\* after the server was shut down.
C36_SignalAfterCreateSignalsNotLost ==
    /\ (mSignalsSent > 0 /\ exit = "running") ~> (exit # "running")
    /\ [](exit = "exit0" => (mSignalsSent > 0 /\ server = "shutdown"))

C36_Witness ==
    /\ sigBeforeHandshake
    /\ browser = "alive"
    /\ exit = "exit0"
    /\ server = "shutdown"

\* C37: while the supervisor runs and the browser it launched is alive, the browser
\* data directory exists; the step that removes it is the supervisor's exit.
C37_BrowserDataDirKeptWhileRunning ==
    /\ []((exit = "running" /\ browser = "alive") => browserDataDir)
    /\ [][(browserDataDir /\ ~browserDataDir')
              => (exit = "running" /\ exit' # "running")]_vars

\* C39: sync_state is NotRunning exactly when no thread is spawning the build,
\* waiting for it or about to release it.
C39_NotRunningIffNoBuildInFlight ==
    (sync_state = "NotRunning") <=> NoBuildInFlight

\* C40: a thread that is about to lock sync_state again after its build never
\* finds NotRunning there, and no thread panics while it holds the lock.
C40_RelockNeverFindsNotRunning ==
    /\ \A t \in Threads : pc[t] = "relock" => sync_state # "NotRunning"
    /\ ~poisoned

C40_Witness ==
    /\ bcLastExit # "none"
    /\ sync_state = "RunningAndQueued"
    /\ \A t \in Threads : pc[t] \in {"unspawned", "done"}
    /\ ~poisoned

====
